---- MODULE Spec2Model ----
(***************************************************************************)
(* Lobby settlement engine of memit0/bets: the LobbyManager ledger, the    *)
(* socket handlers of server.js that drive it, the deposit cache of the    *)
(* EventListener, the FinalizationJob with its retrying ContractClient,    *)
(* the LobbyStore archive and the BetLobby contract's distributeRewards    *)
(* validation.                                                             *)
(*                                                                         *)
(* JavaScript Maps are modelled as association lists (sequences of rows in *)
(* insertion order) wherever the code iterates over them, and as functions *)
(* where it only gets/sets/deletes.  Null/undefined is modelled by Null.   *)
(***************************************************************************)
EXTENDS Integers, Sequences, FiniteSets, TLC

\* ------------------------------------------------------------------ bounds
NSockets == 2
NLobbies == 2
NAddresses == 3
MaxDeposits == 2
MaxGameDeposits == 3
MaxGameLobbies == 1
MaxRuns == 2
MaxJoins == 2
MaxNow == 4000000

\* ------------------------------------------------------- program constants
depositAmount == 1000000
feeBps == 500
lobbyDuration == 300
cashOutGraceSeconds == 45
RECONNECT_GRACE_PERIOD == 30000
maxRetries == 3
OneHourMs == 60 * 60 * 1000
Null == 0
StartClock == 1000
NoAddress == "null"

Sockets == 1..NSockets
LobbyIds == 1..NLobbies

\* The addresses clients send: accounts[0] of the wallet is lower-case,
\* signer.getAddress() is checksummed (mixed case); "0xAA" and "0xaa" are the
\* same account.
AddrPool == <<"0xaa", "0xbb", "0xAA", "0xBB">>
Addresses == {AddrPool[i] : i \in 1..NAddresses}

toLowerCase(a) ==
    CASE a = "0xAA" -> "0xaa"
      [] a = "0xBB" -> "0xbb"
      [] OTHER -> a

LowerAddresses == {toLowerCase(a) : a \in Addresses}

\* JavaScript's string < on the lower-cased addresses of the pool.
AddrRank(a) == IF a = "0xaa" THEN 1 ELSE 2

NetworkReasons == {"transport close", "ping timeout", "transport error"}
Reasons == NetworkReasons \cup {"client namespace disconnect"}

VARIABLES
    lm,           \* LobbyManager: lobbies, order, playerLobbies, addressLobbies
    conn,         \* per socket: "new", "open" (connected) or "closed"
    timers,       \* pending grace timers set by the disconnect handler
    now,          \* Date.now()
    deposits,     \* EventListener.deposits: lower-case address -> lobby id
    chain,        \* BetLobby contract: per lobby state, joins, payouts made
    runs,         \* checkAndFinalize invocations in progress
    store,        \* LobbyStore: lobby id -> saved snapshot
    contractClient, \* FinalizationJob.contractClient: FALSE for null
    hist          \* history: what happened, for stating the properties

vars == <<lm, conn, timers, now, deposits, chain, runs, store, contractClient,
          hist>>

\* ------------------------------------------------------------ Map helpers
EmptyFn == [x \in {} |-> 0]

\* lobby.players: Map<socketId, PlayerState> in insertion order
HasRow(players, s) == \E i \in DOMAIN players : players[i].socketId = s
RowIdx(players, s) == CHOOSE i \in DOMAIN players : players[i].socketId = s
GetRow(players, s) == players[RowIdx(players, s)]
SetRow(players, row) ==
    IF HasRow(players, row.socketId)
    THEN [i \in DOMAIN players |->
            IF players[i].socketId = row.socketId THEN row ELSE players[i]]
    ELSE Append(players, row)
DeleteRow(players, s) == SelectSeq(players, LAMBDA r : r.socketId # s)

\* lobby.balances: Map<address, {amount, status}> in insertion order
HasBal(balances, a) == \E i \in DOMAIN balances : balances[i].address = a
BalIdx(balances, a) == CHOOSE i \in DOMAIN balances : balances[i].address = a
GetBal(balances, a) == balances[BalIdx(balances, a)]
\* balance.amount = amt; balance.status = st, when the entry exists
UpdBal(balances, a, amt, st) ==
    [i \in DOMAIN balances |->
        IF balances[i].address = a
        THEN [address |-> a, amount |-> amt, status |-> st]
        ELSE balances[i]]

\* first row of the Map whose address matches, ignoring case (the for-loops
\* of removePlayer and getPlayerByAddress); Null when there is none
FirstByAddress(players, a) ==
    LET hits == {i \in DOMAIN players :
                    toLowerCase(players[i].address) = toLowerCase(a)}
    IN IF hits = {} THEN Null
       ELSE players[CHOOSE i \in hits : \A j \in hits : i <= j].socketId

\* ---------------------------------------------------------- LobbyManager
NewManager ==
    [lobbies |-> EmptyFn, order |-> <<>>,
     playerLobbies |-> [s \in Sockets |-> Null],
     addressLobbies |-> [a \in LowerAddresses |-> Null]]

NewLobby(lobbyId) ==
    [id |-> lobbyId, startTime |-> Null, endTime |-> Null, state |-> "waiting",
     players |-> <<>>, balances |-> <<>>]

\* get or create
getLobby(M, lobbyId) ==
    IF lobbyId \in DOMAIN M.lobbies THEN M
    ELSE [M EXCEPT !.lobbies = (lobbyId :> NewLobby(lobbyId)) @@ @,
                   !.order = Append(@, lobbyId)]

activateLobby(M, lobbyId, t) ==
    LET M1 == getLobby(M, lobbyId)
    IN IF M1.lobbies[lobbyId].state = "waiting"
       THEN [M1 EXCEPT !.lobbies[lobbyId].startTime = t,
                       !.lobbies[lobbyId].endTime = t + lobbyDuration * 1000,
                       !.lobbies[lobbyId].state = "active"]
       ELSE M1

addPlayer(M, lobbyId, socketId, address) ==
    LET M1 == getLobby(M, lobbyId)
        lobby == M1.lobbies[lobbyId]
        row == [socketId |-> socketId, address |-> address,
                balance |-> depositAmount, status |-> "active"]
        bal == IF HasBal(lobby.balances, address) THEN lobby.balances
               ELSE Append(lobby.balances,
                           [address |-> address, amount |-> depositAmount,
                            status |-> "active"])
    IN [M1 EXCEPT !.lobbies[lobbyId].players = SetRow(lobby.players, row),
                  !.lobbies[lobbyId].balances = bal,
                  !.playerLobbies[socketId] = lobbyId,
                  !.addressLobbies[toLowerCase(address)] = lobbyId]

markTemporarilyDisconnected(M, socketId) ==
    LET lobbyId == M.playerLobbies[socketId]
    IN IF lobbyId = Null THEN M
       ELSE LET M1 == getLobby(M, lobbyId)
                players == M1.lobbies[lobbyId].players
            IN IF HasRow(players, socketId)
                  /\ GetRow(players, socketId).status = "active"
               THEN [M1 EXCEPT !.lobbies[lobbyId].players =
                        SetRow(players, [GetRow(players, socketId) EXCEPT
                                            !.status = "temporarily_disconnected"])]
               ELSE M1

\* the part of removePlayer after the target lobby and socket are known
removeTarget(M, targetSocketId, targetLobbyId) ==
    IF targetLobbyId = Null \/ targetSocketId = Null THEN M
    ELSE LET M1 == getLobby(M, targetLobbyId)
             lobby == M1.lobbies[targetLobbyId]
             M2 == IF ~HasRow(lobby.players, targetSocketId) THEN M1
                   ELSE LET player == GetRow(lobby.players, targetSocketId)
                            kill == player.status \in
                                      {"active", "temporarily_disconnected"}
                            bal == IF kill /\ HasBal(lobby.balances, player.address)
                                   THEN UpdBal(lobby.balances, player.address, 0, "dead")
                                   ELSE lobby.balances
                        IN [M1 EXCEPT
                              !.lobbies[targetLobbyId].balances = bal,
                              !.lobbies[targetLobbyId].players =
                                  DeleteRow(lobby.players, targetSocketId)]
         IN [M2 EXCEPT !.playerLobbies[targetSocketId] = Null]

\* removePlayer(socketId, address, lobbyId): the lobbyId argument is only the
\* initial value of targetLobbyId and is overwritten on both lookup paths
removePlayer(M, socketId, address, lobbyId) ==
    IF socketId # Null
    THEN removeTarget(M, socketId, M.playerLobbies[socketId])
    ELSE IF address # NoAddress
    THEN LET targetLobbyId == M.addressLobbies[toLowerCase(address)]
         IN IF targetLobbyId = Null THEN M
            ELSE LET M1 == getLobby(M, targetLobbyId)
                 IN removeTarget(M1,
                        FirstByAddress(M1.lobbies[targetLobbyId].players, address),
                        targetLobbyId)
    ELSE M

removePlayerPermanently(M, address, lobbyId) == removePlayer(M, Null, address, lobbyId)

\* the row handleReconnection rebinds: the first one of that address that is
\* temporarily disconnected; Null when there is none (it returns false)
reconnectRow(M, address, lobbyId) ==
    LET players == getLobby(M, lobbyId).lobbies[lobbyId].players
        hits == {i \in DOMAIN players :
                    /\ toLowerCase(players[i].address) = toLowerCase(address)
                    /\ players[i].status = "temporarily_disconnected"}
    IN IF hits = {} THEN Null
       ELSE players[CHOOSE i \in hits : \A j \in hits : i <= j].socketId

handleReconnection(M, socketId, address, lobbyId) ==
    LET M1 == getLobby(M, lobbyId)
        lobby == M1.lobbies[lobbyId]
        oldSocketId == reconnectRow(M, address, lobbyId)
    IN IF oldSocketId = Null THEN M1
       ELSE LET playerState == [GetRow(lobby.players, oldSocketId) EXCEPT
                                    !.socketId = socketId, !.status = "active"]
                normalizedAddress == toLowerCase(address)
                bal == IF HasBal(lobby.balances, normalizedAddress)
                       THEN UpdBal(lobby.balances, normalizedAddress,
                                   GetBal(lobby.balances, normalizedAddress).amount,
                                   "active")
                       ELSE lobby.balances
            IN [M1 EXCEPT
                  !.lobbies[lobbyId].players =
                      SetRow(DeleteRow(lobby.players, oldSocketId), playerState),
                  !.lobbies[lobbyId].balances = bal,
                  !.playerLobbies = [@ EXCEPT ![oldSocketId] = Null,
                                              ![socketId] = lobbyId]]

\* the status of the row getPlayer returns; "none" when it returns null
getPlayerStatus(M, socketId) ==
    LET lobbyId == M.playerLobbies[socketId]
    IN IF lobbyId = Null THEN "none"
       ELSE LET players == getLobby(M, lobbyId).lobbies[lobbyId].players
            IN IF HasRow(players, socketId)
               THEN GetRow(players, socketId).status ELSE "none"

\* the status of the row getPlayerByAddress returns; "none" when it returns null
getPlayerByAddressStatus(M, address) ==
    LET lobbyId == M.addressLobbies[toLowerCase(address)]
    IN IF lobbyId = Null THEN "none"
       ELSE LET players == getLobby(M, lobbyId).lobbies[lobbyId].players
                sid == FirstByAddress(players, address)
            IN IF sid = Null THEN "none" ELSE GetRow(players, sid).status

\* the early returns without the test of the victim's status
killApplies_anyVictim(M, killerSocketId, victimSocketId) ==
    LET killerLobbyId == M.playerLobbies[killerSocketId]
        victimLobbyId == M.playerLobbies[victimSocketId]
    IN /\ killerLobbyId # Null
       /\ killerLobbyId = victimLobbyId
       /\ LET players == getLobby(M, killerLobbyId).lobbies[killerLobbyId].players
          IN /\ HasRow(players, killerSocketId)
             /\ HasRow(players, victimSocketId)

\* whether handleKill gets past its two early returns
killApplies(M, killerSocketId, victimSocketId) ==
    LET killerLobbyId == M.playerLobbies[killerSocketId]
        victimLobbyId == M.playerLobbies[victimSocketId]
    IN /\ killerLobbyId # Null
       /\ killerLobbyId = victimLobbyId
       /\ LET players == getLobby(M, killerLobbyId).lobbies[killerLobbyId].players
          IN /\ HasRow(players, killerSocketId)
             /\ HasRow(players, victimSocketId)
             /\ GetRow(players, victimSocketId).status = "active"

handleKill(M, killerSocketId, victimSocketId) ==
    LET killerLobbyId == M.playerLobbies[killerSocketId]
    IN IF killerLobbyId = Null \/ killerLobbyId # M.playerLobbies[victimSocketId]
       THEN M
       ELSE
       LET M1 == getLobby(M, killerLobbyId)
           lobby == M1.lobbies[killerLobbyId]
       IN IF ~killApplies(M, killerSocketId, victimSocketId) THEN M1
          ELSE
          LET killer0 == GetRow(lobby.players, killerSocketId)
              victim0 == GetRow(lobby.players, victimSocketId)
              killer == [killer0 EXCEPT !.balance = @ + victim0.balance]
              victim == [victim0 EXCEPT !.balance = 0, !.status = "dead"]
              bal1 == IF HasBal(lobby.balances, killer.address)
                      THEN UpdBal(lobby.balances, killer.address, killer.balance,
                                  GetBal(lobby.balances, killer.address).status)
                      ELSE lobby.balances
              bal2 == IF HasBal(bal1, victim.address)
                      THEN UpdBal(bal1, victim.address, 0, "dead")
                      ELSE bal1
          IN [M1 EXCEPT
                !.lobbies[killerLobbyId].players =
                    SetRow(SetRow(lobby.players, killer), victim),
                !.lobbies[killerLobbyId].balances = bal2]

\* the checks of handleCashOut without the grace period
cashOutOk_noGrace(M, socketId, t) ==
    LET lobbyId == M.playerLobbies[socketId]
    IN /\ lobbyId # Null
       /\ LET lobby == getLobby(M, lobbyId).lobbies[lobbyId]
          IN /\ HasRow(lobby.players, socketId)
             /\ GetRow(lobby.players, socketId).status = "active"
             /\ lobby.state = "active"

\* whether handleCashOut returns true
cashOutOk(M, socketId, t) ==
    LET lobbyId == M.playerLobbies[socketId]
    IN /\ lobbyId # Null
       /\ LET lobby == getLobby(M, lobbyId).lobbies[lobbyId]
          IN /\ HasRow(lobby.players, socketId)
             /\ GetRow(lobby.players, socketId).status = "active"
             /\ lobby.state = "active"
             /\ ~(t < lobby.startTime + cashOutGraceSeconds * 1000)

handleCashOut(M, socketId, t) ==
    LET lobbyId == M.playerLobbies[socketId]
    IN IF lobbyId = Null THEN M
       ELSE LET M1 == getLobby(M, lobbyId)
                lobby == M1.lobbies[lobbyId]
            IN IF ~cashOutOk(M, socketId, t) THEN M1
               ELSE LET player == GetRow(lobby.players, socketId)
                        bal == IF HasBal(lobby.balances, player.address)
                               THEN UpdBal(lobby.balances, player.address,
                                           GetBal(lobby.balances, player.address).amount,
                                           "frozen")
                               ELSE lobby.balances
                    IN [M1 EXCEPT
                          !.lobbies[lobbyId].players =
                              SetRow(lobby.players, [player EXCEPT !.status = "frozen"]),
                          !.lobbies[lobbyId].balances = bal]

markFinalizable(M, lobbyId) ==
    LET M1 == getLobby(M, lobbyId)
    IN IF M1.lobbies[lobbyId].state = "active"
       THEN [M1 EXCEPT !.lobbies[lobbyId].state = "finalizable"]
       ELSE M1

markFinalized(M, lobbyId) ==
    [getLobby(M, lobbyId) EXCEPT !.lobbies[lobbyId].state = "finalized"]

\* the lobby ids past their end, whatever their state
getLobbiesReadyForFinalization_anyState(M, t) ==
    SelectSeq(M.order, LAMBDA l :
        /\ M.lobbies[l].endTime # Null
        /\ M.lobbies[l].endTime <= t)

\* the lobby ids of the Map, in its order, that are active and past their end
getLobbiesReadyForFinalization(M, t) ==
    SelectSeq(M.order, LAMBDA l :
        /\ M.lobbies[l].state = "active"
        /\ M.lobbies[l].endTime # Null
        /\ M.lobbies[l].endTime <= t)

\* removePlayer(socketId, null, lobbyId) for every row of the lobby
RECURSIVE despawnRows(_, _, _)
despawnRows(M, rows, lobbyId) ==
    IF rows = <<>> THEN M
    ELSE despawnRows(removePlayer(M, Head(rows).socketId, NoAddress, lobbyId),
                     Tail(rows), lobbyId)

despawnLobbyPlayers(M, lobbyId) ==
    LET M1 == getLobby(M, lobbyId)
    IN despawnRows(M1, M1.lobbies[lobbyId].players, lobbyId)

\* the amount getFinalBalances reports for one ledger entry
finalAmount(balance) ==
    IF balance.status = "frozen" THEN balance.amount
    ELSE IF balance.status = "active" THEN balance.amount
    ELSE 0

\* balances.sort by address: a stable sort on the lower-cased address
sortByAddress(list) ==
    SelectSeq(list, LAMBDA b : AddrRank(b.address) = 1)
        \o SelectSeq(list, LAMBDA b : AddrRank(b.address) = 2)

getFinalBalances(M, lobbyId) ==
    LET balances == getLobby(M, lobbyId).lobbies[lobbyId].balances
    IN sortByAddress([i \in DOMAIN balances |->
            [address |-> toLowerCase(balances[i].address),
             amount |-> finalAmount(balances[i])]])

evictable(lobby, t) ==
    /\ lobby.endTime # Null
    /\ lobby.endTime < t - OneHourMs
    /\ lobby.state = "finalized"

cleanupOldLobbies(M, t) ==
    LET gone == {l \in DOMAIN M.lobbies : evictable(M.lobbies[l], t)}
        rows == {<<l, i>> \in gone \X Sockets :
                    i \in DOMAIN M.lobbies[l].players}
        socks == {M.lobbies[r[1]].players[r[2]].socketId : r \in rows}
        addrs == {toLowerCase(M.lobbies[r[1]].players[r[2]].address) : r \in rows}
    IN [lobbies |-> [l \in DOMAIN M.lobbies \ gone |-> M.lobbies[l]],
        order |-> SelectSeq(M.order, LAMBDA l : l \notin gone),
        playerLobbies |-> [s \in Sockets |->
                             IF s \in socks THEN Null ELSE M.playerLobbies[s]],
        addressLobbies |-> [a \in LowerAddresses |->
                             IF a \in addrs THEN Null ELSE M.addressLobbies[a]]]

\* ------------------------------------------------- settlement arithmetic
\* <<q, r>> with a * b = q * c + r and 0 <= r < c, computed bit by bit of b so
\* that no intermediate exceeds 2 * c + a.  Math.floor((a * b) / c) of the code
\* is exact for the amounts of the model (a * b < 2^53).
RECURSIVE MulDivQR(_, _, _)
MulDivQR(a, b, c) ==
    IF b = 0 THEN <<0, 0>>
    ELSE LET h == MulDivQR(a, b \div 2, c)
             r == 2 * h[2] + (b % 2) * a
         IN <<2 * h[1] + (r \div c), r % c>>

MulDivFloor(a, b, c) == MulDivQR(a, b, c)[1]

RECURSIVE SumAmounts(_)
SumAmounts(list) ==
    IF list = <<>> THEN 0 ELSE Head(list).amount + SumAmounts(Tail(list))

computeTotalDeposits(lobby) == Len(lobby.balances) * depositAmount

computeTotalPayout(activeTotalBalance) ==
    MulDivFloor(activeTotalBalance, 10000, 10000 + feeBps)

\* the fee taken as feeBps of the payout instead of the remainder
computeTotalFee_ofPayout(totalDeposits, totalPayout) ==
    MulDivFloor(totalPayout, feeBps, 10000)

computeTotalFee(totalDeposits, totalPayout) == totalDeposits - totalPayout

\* the share computed without the guard: 0 / 0 is not a number (-1 here)
playerShare_unguarded(amount, totalPayout, activeTotalBalance) ==
    IF activeTotalBalance = 0 THEN -1
    ELSE MulDivFloor(amount, totalPayout, activeTotalBalance)

\* the share rounded up instead of down
playerShare_roundUp(amount, totalPayout, activeTotalBalance) ==
    IF amount > 0 /\ activeTotalBalance > 0
    THEN MulDivQR(amount, totalPayout, activeTotalBalance)[1]
         + (IF MulDivQR(amount, totalPayout, activeTotalBalance)[2] > 0
            THEN 1 ELSE 0)
    ELSE 0

playerShare(amount, totalPayout, activeTotalBalance) ==
    IF amount > 0 /\ activeTotalBalance > 0
    THEN MulDivFloor(amount, totalPayout, activeTotalBalance)
    ELSE 0

\* the values finalizeLobby computes between the snapshot and the submission
settlement(M, lobbyId) ==
    LET finalBalances == getFinalBalances(M, lobbyId)
        totalDeposits == computeTotalDeposits(M.lobbies[lobbyId])
        activeTotalBalance == SumAmounts(finalBalances)
        totalPayout == computeTotalPayout(activeTotalBalance)
        totalFee == computeTotalFee(totalDeposits, totalPayout)
    IN [finalBalances |-> finalBalances,
        totalDeposits |-> totalDeposits,
        activeTotalBalance |-> activeTotalBalance,
        totalPayout |-> totalPayout,
        totalFee |-> totalFee,
        balancesWithFee |-> [i \in DOMAIN finalBalances |->
            [address |-> finalBalances[i].address,
             amount |-> playerShare(finalBalances[i].amount, totalPayout,
                                    activeTotalBalance)]]]

\* the record finalizeLobby hands to lobbyStore.saveLobby
lobbySnapshot(lobbyId, S, hasTx) ==
    [lobbyId |-> lobbyId, finalBalances |-> S.balancesWithFee,
     totalPayout |-> S.totalPayout, totalFee |-> S.totalFee, txHash |-> hasTx]

saveLobby(st, lobbyId, data) == (lobbyId :> data) @@ st

\* finalBalances.findIndex(b => b.address.toLowerCase() === normalizedAddress),
\* with 0 for the -1 of a search that finds nothing
findIndex(finalBalances, normalizedAddress) ==
    LET hits == {i \in DOMAIN finalBalances :
                    toLowerCase(finalBalances[i].address) = normalizedAddress}
    IN IF hits = {} THEN 0
       ELSE CHOOSE i \in hits : \A j \in hits : i <= j

\* LobbyStore.getClaimData(lobbyId, address) on the saved records: null, the
\* claim, or the TypeError of indexing lobby.proofs (lobby.leaves) when the
\* saved record has no such field
getClaimData(st, lobbyId, address) ==
    IF lobbyId \notin DOMAIN st THEN [kind |-> "null"]
    ELSE LET lobby == st[lobbyId]
             balanceIndex == findIndex(lobby.finalBalances, toLowerCase(address))
         IN IF balanceIndex = 0 THEN [kind |-> "null"]
            ELSE IF ~({"proofs", "leaves"} \subseteq DOMAIN lobby)
            THEN [kind |-> "TypeError"]
            ELSE [kind |-> "claim",
                  amount |-> lobby.finalBalances[balanceIndex].amount,
                  address |-> lobby.finalBalances[balanceIndex].address]

\* ------------------------------------------------------- BetLobby contract
RECURSIVE SumPositive(_)
SumPositive(list) ==
    IF list = <<>> THEN 0
    ELSE (IF Head(list).amount > 0 THEN Head(list).amount ELSE 0)
         + SumPositive(Tail(list))

\* whether distributeRewards of the contract runs to its end without a revert,
\* for the arguments finalizeLobby passes (uint96 arguments cannot be negative,
\* expectedFee - 1 underflows when expectedFee is 0).  The job submits after
\* the lobby's end, so the contract's own end-time requirement is taken as met.
contractAccepts(C, lobbyId, S) ==
    /\ S.totalPayout >= 0
    /\ S.totalFee >= 0
    /\ C.state[lobbyId] = "Active"
    /\ S.totalPayout + S.totalFee = C.joins[lobbyId] * depositAmount
    /\ \E expectedFee \in {MulDivFloor(S.totalPayout, feeBps, 10000)} :
          /\ expectedFee >= 1
          /\ S.totalFee >= expectedFee - 1
          /\ S.totalFee <= expectedFee + 1
    /\ SumPositive(S.balancesWithFee) = S.totalPayout

joinLobby(C, address, lobbyId) ==
    [C EXCEPT !.state[lobbyId] = "Active",
              !.joins[lobbyId] = @ + 1,
              !.joined = @ \cup {<<toLowerCase(address), lobbyId>>}]

\* ContractClient.distributeRewards(lobbyId, ..., maxRetries): the attempts of
\* one call.  outcomes[n] is what the network does to attempt n: "ok" (mined
\* and the receipt arrives), "lost" (mined, the client gets an error instead
\* of the receipt) or "fail" (not mined).  A transaction the contract rejects
\* is not mined whatever the network does.
\* During one call the network either works, loses the receipts or is down;
\* a call whose early attempts fail and whose later one succeeds ends as the
\* call that succeeds at once.
Outcomes == {[n \in 1..maxRetries |-> o] : o \in {"ok", "lost", "fail"}}

\* every behaviour of the network over the attempts of one call
AllOutcomes == [1..maxRetries -> {"ok", "lost", "fail"}]

\* the wait of the catch block taken after every failed attempt, the last too
backoff_always(attempt) == <<(2 ^ attempt) * 1000>>

\* the wait of the catch block, in ms: none after the last attempt
backoff(attempt) ==
    IF attempt < maxRetries - 1 THEN <<(2 ^ attempt) * 1000>> ELSE <<>>

\* the result is the contract's state after the call, whether the call
\* returned (success) or threw, the attempts made and the waits taken in turn
RECURSIVE distributeRewards(_, _, _, _, _)
distributeRewards(C, lobbyId, S, outcomes, attempt) ==
    IF ~(attempt < maxRetries)
    THEN [chain |-> C, success |-> FALSE, attempts |-> attempt, waits |-> <<>>]
    ELSE IF contractAccepts(C, lobbyId, S) /\ outcomes[attempt + 1] # "fail"
    THEN LET C1 == [C EXCEPT !.state[lobbyId] = "Finalized",
                             !.paid[lobbyId] = @ + 1]
         IN IF outcomes[attempt + 1] = "ok"
            THEN [chain |-> C1, success |-> TRUE, attempts |-> attempt + 1,
                  waits |-> <<>>]
            ELSE [distributeRewards(C1, lobbyId, S, outcomes, attempt + 1)
                    EXCEPT !.waits = backoff(attempt) \o @]
    ELSE [distributeRewards(C, lobbyId, S, outcomes, attempt + 1)
            EXCEPT !.waits = backoff(attempt) \o @]

RECURSIVE SumJoins(_, _)
SumJoins(C, l) == IF l = 0 THEN 0 ELSE C.joins[l] + SumJoins(C, l - 1)
TotalJoins(C) == SumJoins(C, NLobbies)

\* ---------------------------------------------------------- EventListener
hasDeposited(D, address, lobbyId) == D[toLowerCase(address)] = lobbyId

\* ---------------------------------------------------------------- history
Observe(h, M) ==
    [h EXCEPT !.lastState = [l \in LobbyIds |->
        IF l \in DOMAIN M.lobbies THEN M.lobbies[l].state ELSE @[l]]]

\* ------------------------------------------------------- FinalizationJob
\* finalizeLobby up to its await: despawn, markFinalizable, snapshot, totals,
\* first saveLobby
finalizeSync(M, st, lobbyId) ==
    LET M1 == markFinalizable(despawnLobbyPlayers(M, lobbyId), lobbyId)
        S == settlement(M1, lobbyId)
    IN [lm |-> M1, settle |-> S,
        store |-> saveLobby(st, lobbyId, lobbySnapshot(lobbyId, S, FALSE))]

\* whether finalizeLobby returns at its first check
finalizeSkips_never(M, lobbyId) == FALSE

finalizeSkips(M, lobbyId) == getLobby(M, lobbyId).lobbies[lobbyId].state = "finalized"

\* the for-loop of checkAndFinalize from the lobbies still to do: it runs
\* without yielding to other handlers until a finalizeLobby awaits the contract
\* call (run = <<the submission in flight>>) or the list is done (run = <<>>).
\* Without a contract client finalizeLobby has no await and marks the lobby
\* finalized locally.
RECURSIVE continueRun(_, _, _, _)
continueRun(M, st, h, todo) ==
    IF todo = <<>> THEN [lm |-> M, store |-> st, hist |-> h, run |-> <<>>]
    ELSE LET lobbyId == Head(todo)
         IN IF finalizeSkips(M, lobbyId)
            THEN continueRun(getLobby(M, lobbyId), st,
                             [h EXCEPT !.skips[lobbyId] = 1], Tail(todo))
            ELSE LET F == finalizeSync(M, st, lobbyId)
                 IN IF contractClient
                    THEN [lm |-> F.lm, store |-> F.store,
                          hist |-> [h EXCEPT !.submitCalls[lobbyId] = @ + 1],
                          run |-> <<[todo |-> Tail(todo), lobbyId |-> lobbyId,
                                     settle |-> F.settle]>>]
                    ELSE continueRun(markFinalized(F.lm, lobbyId), F.store, h,
                                     Tail(todo))

\* finalizeLobby after its await, and the rest of the checkAndFinalize loop
afterSubmission(M, st, h, run, success) ==
    IF success
    THEN continueRun(markFinalized(M, run.lobbyId),
                     saveLobby(st, run.lobbyId,
                               lobbySnapshot(run.lobbyId, run.settle, TRUE)),
                     [h EXCEPT !.acks[run.lobbyId] = @ + 1],
                     run.todo)
    ELSE continueRun(M, st, [h EXCEPT !.exhausted = @ \cup {run.lobbyId}],
                     run.todo)

RemoveAt(seq, i) == SubSeq(seq, 1, i - 1) \o SubSeq(seq, i + 1, Len(seq))

\* ------------------------------------------------------------------ Init
Init ==
    /\ lm = NewManager
    /\ conn = [s \in Sockets |-> "new"]
    /\ timers = {}
    /\ now = StartClock
    /\ deposits = [a \in LowerAddresses |-> Null]
    /\ chain = [state |-> [l \in LobbyIds |-> "Waiting"],
                joins |-> [l \in LobbyIds |-> 0],
                paid |-> [l \in LobbyIds |-> 0],
                joined |-> {}]
    /\ runs = <<>>
    /\ store = EmptyFn
    /\ contractClient \in BOOLEAN
    /\ hist = [confirmed |-> 0, reconnected |-> {},
               lastState |-> [l \in LobbyIds |-> "none"],
               submitCalls |-> [l \in LobbyIds |-> 0],
               acks |-> [l \in LobbyIds |-> 0],
               skips |-> [l \in LobbyIds |-> 0],
               exhausted |-> {}]

\* --------------------------------------------------------------- actions
\* io.on('connection'): a client connects; socket ids are fresh, taken in order
Connect(socketId) ==
    /\ conn[socketId] = "new"
    /\ IF socketId = 1 THEN TRUE ELSE conn[socketId - 1] # "new"
    /\ conn' = [conn EXCEPT ![socketId] = "open"]
    /\ UNCHANGED <<lm, timers, now, deposits, chain, runs, store, hist, contractClient>>

\* A player calls joinLobby on the contract; the listener's LobbyJoined
\* callback records the deposit.
ChainJoin(address, lobbyId) ==
    /\ chain.state[lobbyId] # "Finalized"
    /\ IF lobbyId = 1 THEN TRUE ELSE chain.joins[lobbyId - 1] > 0
    /\ TotalJoins(chain) < MaxJoins
    /\ chain' = joinLobby(chain, address, lobbyId)
    /\ deposits' = [deposits EXCEPT ![toLowerCase(address)] = lobbyId]
    /\ UNCHANGED <<lm, conn, timers, now, runs, store, hist, contractClient>>

\* what the queryFilter call of verifyDeposit does: it answers, or it throws
QueryOutcomes == {"ok", "error"}

\* verifyDeposit that returns true without caching the deposit
verifyDeposit_noCache(D, C, address, lobbyId, query) ==
    IF query = "error" THEN [verified |-> FALSE, deposits |-> D]
    ELSE [verified |-> <<toLowerCase(address), lobbyId>> \in C.joined,
          deposits |-> D]

\* EventListener.verifyDeposit(address, lobbyId): the LobbyJoined events of
\* the address and lobby are queried; a query error is caught and gives false
verifyDeposit(D, C, address, lobbyId, query) ==
    IF query = "error" THEN [verified |-> FALSE, deposits |-> D]
    ELSE IF <<toLowerCase(address), lobbyId>> \in C.joined
    THEN [verified |-> TRUE,
          deposits |-> [D EXCEPT ![toLowerCase(address)] = lobbyId]]
    ELSE [verified |-> FALSE, deposits |-> D]

\* whether a confirmation can be verified: the deposit is cached, or the
\* verifyDeposit query finds the LobbyJoined event
depositVerified(D, C, address, lobbyId) ==
    \/ hasDeposited(D, address, lobbyId)
    \/ <<toLowerCase(address), lobbyId>> \in C.joined

\* the playerDepositConfirmed handler from the verification on (it reads no
\* state before): the manager and the cache it leaves, whether the deposit
\* was verified and the row it rebound (Null if none)
playerDepositConfirmed(M, D, C, socketId, address, lobbyId, t, query) ==
    LET V == IF hasDeposited(D, address, lobbyId)
             THEN [verified |-> TRUE, deposits |-> D]
             ELSE verifyDeposit(D, C, address, lobbyId, query)
    IN IF ~V.verified
       THEN [lm |-> M, deposits |-> V.deposits, verified |-> FALSE, old |-> Null]
       ELSE LET M1 == activateLobby(getLobby(M, lobbyId), lobbyId, t)
                old == reconnectRow(M1, address, lobbyId)
            IN [lm |-> IF old # Null
                       THEN handleReconnection(M1, socketId, address, lobbyId)
                       ELSE addPlayer(M1, lobbyId, socketId, address),
                deposits |-> V.deposits, verified |-> TRUE, old |-> old]

\* socket.on('playerDepositConfirmed'), taken while the socket is still open
DepositConfirmed(socketId, address, lobbyId) ==
    /\ conn[socketId] = "open"
    /\ \E query \in QueryOutcomes :
       \E H \in {playerDepositConfirmed(lm, deposits, chain, socketId, address,
                                        lobbyId, now, query)} :
          /\ lm' = H.lm
          /\ deposits' = H.deposits
          /\ hist' = IF H.verified
                     THEN Observe([hist EXCEPT
                              !.confirmed = @ + 1,
                              !.reconnected = IF H.old # Null
                                              THEN @ \cup {H.old} ELSE @],
                            H.lm)
                     ELSE hist
    /\ UNCHANGED <<conn, timers, now, chain, runs, store, contractClient>>

\* tickGame: one player's last cell is eaten by another player
Kill(killerSocketId, victimSocketId) ==
    /\ killerSocketId # victimSocketId
    /\ conn[killerSocketId] = "open"
    /\ conn[victimSocketId] = "open"
    /\ lm' = handleKill(lm, killerSocketId, victimSocketId)
    /\ hist' = Observe(hist, lm')
    /\ UNCHANGED <<conn, timers, now, deposits, chain, runs, store, contractClient>>

\* socket.on('cashOutIntent')
CashOut(socketId) ==
    /\ conn[socketId] = "open"
    /\ lm' = handleCashOut(lm, socketId, now)
    /\ hist' = Observe(hist, lm')
    /\ UNCHANGED <<conn, timers, now, deposits, chain, runs, store, contractClient>>

\* socket.on('disconnecting') followed by socket.on('disconnect')
Disconnect(socketId, reason) ==
    /\ conn[socketId] = "open"
    /\ conn' = [conn EXCEPT ![socketId] = "closed"]
    /\ LET lobbyId == lm.playerLobbies[socketId]
           info == getPlayerStatus(lm, socketId) = "active"
           M0 == IF lobbyId = Null THEN lm ELSE getLobby(lm, lobbyId)
       IN IF info /\ reason \in NetworkReasons
          THEN /\ lm' = markTemporarilyDisconnected(M0, socketId)
               /\ timers' = timers \cup
                    {[sid |-> socketId,
                      address |-> GetRow(M0.lobbies[lobbyId].players, socketId).address,
                      lobbyId |-> lobbyId,
                      due |-> now + RECONNECT_GRACE_PERIOD]}
          ELSE /\ lm' = removePlayer(M0, socketId, NoAddress, lobbyId)
               /\ timers' = timers
    /\ hist' = Observe(hist, lm')
    /\ UNCHANGED <<now, deposits, chain, runs, store, contractClient>>

\* the setTimeout callback of the disconnect handler
graceExpired(M, timer) ==
    LET M1 == getLobby(M, timer.lobbyId)
        M2 == IF M1.addressLobbies[toLowerCase(timer.address)] = Null THEN M1
              ELSE getLobby(M1, M1.addressLobbies[toLowerCase(timer.address)])
    IN IF getPlayerByAddressStatus(M1, timer.address)
            \in {"none", "temporarily_disconnected"}
       THEN removePlayerPermanently(M2, timer.address, timer.lobbyId)
       ELSE M2

GraceTimerFires(timer) ==
    /\ timer \in timers
    /\ now >= timer.due
    /\ timers' = timers \ {timer}
    /\ lm' = graceExpired(lm, timer)
    /\ hist' = Observe(hist, lm')
    /\ UNCHANGED <<conn, now, deposits, chain, runs, store, contractClient>>

\* the instants at which a time comparison of the code changes its answer:
\* handleCashOut and getLobbiesReadyForFinalization read the clock for an
\* active lobby, cleanupOldLobbies for a finalized one, a timer at its due time
Thresholds ==
    UNION {{lm.lobbies[l].startTime + cashOutGraceSeconds * 1000,
            lm.lobbies[l].endTime} :
           l \in {k \in DOMAIN lm.lobbies : lm.lobbies[k].state = "active"}}
    \cup {lm.lobbies[l].endTime + OneHourMs + 1 :
           l \in {k \in DOMAIN lm.lobbies : evictable(
                    [lm.lobbies[k] EXCEPT !.endTime = 1], OneHourMs + 2)}}
    \cup {t.due : t \in timers}

\* time passes up to the next such instant; a due timer fires before later ones
AdvanceTime(t) ==
    /\ t \in Thresholds
    /\ t > now
    /\ t <= MaxNow
    /\ \A timer \in timers : t <= timer.due
    /\ now' = t
    /\ UNCHANGED <<lm, conn, timers, deposits, chain, runs, store, hist, contractClient>>

\* setInterval(() => this.checkAndFinalize(), 30000)
Tick ==
    /\ Len(runs) < MaxRuns
    /\ getLobbiesReadyForFinalization(lm, now) # <<>>
    /\ \E R \in {continueRun(lm, store, hist,
                              getLobbiesReadyForFinalization(lm, now))} :
          /\ lm' = R.lm
          /\ store' = R.store
          /\ runs' = runs \o R.run
          /\ hist' = Observe(R.hist, R.lm)
    /\ UNCHANGED <<conn, timers, now, deposits, chain, contractClient>>

\* The awaited distributeRewards call of a finalizeLobby in progress returns
\* or throws, and the run goes on: markFinalized and the second saveLobby on
\* success, the catch of checkAndFinalize on an error, then the next lobbies
\* of its list.
SubmissionReturns(i, outcomes) ==
    /\ i \in DOMAIN runs
    /\ \E D \in {distributeRewards(chain, runs[i].lobbyId, runs[i].settle,
                                    outcomes, 0)} :
       \E R \in {afterSubmission(lm, store, hist, runs[i], D.success)} :
          /\ chain' = D.chain
          /\ lm' = R.lm
          /\ store' = R.store
          /\ runs' = RemoveAt(runs, i) \o R.run
          /\ hist' = Observe(R.hist, R.lm)
    /\ UNCHANGED <<conn, timers, now, deposits, contractClient>>

\* setInterval(() => lobbyManager.cleanupOldLobbies(), 60 * 60 * 1000)
CleanupOldLobbies ==
    /\ \E l \in DOMAIN lm.lobbies : evictable(lm.lobbies[l], now)
    /\ lm' = cleanupOldLobbies(lm, now)
    /\ hist' = Observe(hist, lm')
    /\ UNCHANGED <<conn, timers, now, deposits, chain, runs, store, contractClient>>

Next ==
    \/ \E s \in Sockets : Connect(s)
    \/ \E a \in LowerAddresses, l \in LobbyIds : ChainJoin(a, l)
    \/ \E s \in Sockets, a \in Addresses, l \in LobbyIds :
            hist.confirmed < MaxDeposits /\ DepositConfirmed(s, a, l)
    \/ \E k \in Sockets, v \in Sockets : Kill(k, v)
    \/ \E s \in Sockets : CashOut(s)
    \/ \E s \in Sockets, r \in Reasons : Disconnect(s, r)
    \/ \E t \in timers : GraceTimerFires(t)
    \/ \E t \in Thresholds : AdvanceTime(t)
    \/ Tick
    \/ \E i \in 1..MaxRuns, o \in Outcomes : SubmissionReturns(i, o)
    \/ CleanupOldLobbies

Spec == Init /\ [][Next]_vars

\* The game phase: the first MaxGameLobbies lobbies while they are played,
\* without the finalization job.
NextGame ==
    \/ \E s \in Sockets : Connect(s)
    \/ \E a \in LowerAddresses, l \in 1..MaxGameLobbies : ChainJoin(a, l)
    \/ \E s \in Sockets, a \in Addresses, l \in 1..MaxGameLobbies :
            hist.confirmed < MaxGameDeposits /\ DepositConfirmed(s, a, l)
    \/ \E k \in Sockets, v \in Sockets : Kill(k, v)
    \/ \E s \in Sockets : CashOut(s)
    \/ \E s \in Sockets, r \in Reasons : Disconnect(s, r)
    \/ \E t \in timers : GraceTimerFires(t)
    \/ \E t \in Thresholds : AdvanceTime(t)

SpecGame == Init /\ [][NextGame]_vars

\* ------------------------------------------------------------ properties
RECURSIVE SumLedger(_)
SumLedger(balances) ==
    IF balances = <<>> THEN 0
    ELSE Head(balances).amount + SumLedger(Tail(balances))

LedgerSum(M, l) ==
    IF l \in DOMAIN M.lobbies THEN SumLedger(M.lobbies[l].balances) ELSE 0

LedgerEntries(M, l) ==
    IF l \in DOMAIN M.lobbies THEN Len(M.lobbies[l].balances) ELSE 0

RowsOfAccount(players, a) ==
    {i \in DOMAIN players : toLowerCase(players[i].address) = toLowerCase(a)}

StateRank(st) ==
    CASE st = "none" -> 0
      [] st = "waiting" -> 1
      [] st = "active" -> 2
      [] st = "finalizable" -> 3
      [] st = "finalized" -> 4

InFlight(l) == \E i \in DOMAIN runs : runs[i].lobbyId = l

\* C1: Ledger conservation.  In every step, for every lobby, the sum of the
\* ledger amounts is at most depositAmount times the number of addresses that
\* have a ledger entry (one per address with a confirmed deposit), and the sum
\* grows only in a step that adds the entry of a new address.
C1_LedgerConservation ==
    [][\A l \in LobbyIds :
          /\ LedgerSum(lm', l) <= depositAmount * LedgerEntries(lm', l)
          /\ LedgerSum(lm', l) > LedgerSum(lm, l)
                => LedgerEntries(lm', l) > LedgerEntries(lm, l)]_vars

\* C2: Zero-sum kills.  For every handleKill of two rows of the same lobby
\* with an active victim (killer and victim being different accounts), the
\* killer's ledger amount afterwards is the killer's ledger amount before plus
\* the victim's ledger amount before, the victim's ledger amount is 0 and the
\* victim is dead.
C2_ZeroSumKills ==
    [][\A k \in Sockets, v \in Sockets :
          (Kill(k, v) /\ killApplies(lm, k, v)) =>
             LET l == lm.playerLobbies[k]
                 ka == GetRow(lm.lobbies[l].players, k).address
                 va == GetRow(lm.lobbies[l].players, v).address
                 before == lm.lobbies[l].balances
                 after == lm'.lobbies[l].balances
             IN toLowerCase(ka) # toLowerCase(va) =>
                  /\ GetBal(after, ka).amount =
                        GetBal(before, ka).amount + GetBal(before, va).amount
                  /\ GetBal(after, va).amount = 0
                  /\ GetBal(after, va).status = "dead"
                  /\ GetRow(lm'.lobbies[l].players, v).status = "dead"]_vars

\* C3: Settlement conservation.  Every settlement finalizeLobby computes and
\* submits satisfies totalPayout + totalFee = totalDeposits.
C3_SettlementConservation ==
    \A i \in DOMAIN runs :
        runs[i].settle.totalPayout + runs[i].settle.totalFee
            = runs[i].settle.totalDeposits

\* a settlement in flight for a lobby with a forfeited deposit and a survivor
C3_Witness ==
    \E i \in DOMAIN runs :
        /\ runs[i].settle.activeTotalBalance > 0
        /\ runs[i].settle.totalDeposits > runs[i].settle.activeTotalBalance

\* C4: Fee tolerance.  Every settlement finalizeLobby computes has a totalFee
\* within 1 unit of floor(totalPayout * feeBps / 10000).
C4_FeeTolerance ==
    \A i \in DOMAIN runs :
        LET expectedFee == MulDivFloor(runs[i].settle.totalPayout, feeBps, 10000)
        IN /\ runs[i].settle.totalFee >= expectedFee - 1
           /\ runs[i].settle.totalFee <= expectedFee + 1

C6_RetriedAfterFailure ==
    \A l \in hist.exhausted :
        (/\ l \in DOMAIN lm.lobbies
         /\ lm.lobbies[l].state = "finalizable"
         /\ ~InFlight(l))
        => \E i \in DOMAIN getLobbiesReadyForFinalization(lm, now) :
              getLobbiesReadyForFinalization(lm, now)[i] = l

\* C7: A lobby's state only advances.  The state observed for a lobby id
\* never moves back along waiting, active, finalizable, finalized.
C7_StateOnlyAdvances ==
    [][\A l \in LobbyIds :
          StateRank(hist'.lastState[l]) >= StateRank(hist.lastState[l])]_vars

\* C8: Every ledger entry whose status is dead has amount 0.
C8_DeadHasZero ==
    \A l \in DOMAIN lm.lobbies :
        \A i \in DOMAIN lm.lobbies[l].balances :
            lm.lobbies[l].balances[i].status = "dead"
                => lm.lobbies[l].balances[i].amount = 0

\* C9: Reconnection preserves balance.  A deposit confirmation that finds the
\* address's temporarily disconnected row rebinds it to the new socket with
\* the same balance and status active, without adding a row for the account;
\* and the grace timer of a disconnect that was followed by such a
\* reconnection changes nothing when it fires (at a time when no later
\* disconnect of the account has used up its own grace period).
C9_ReconnectionPreserves ==
    [][/\ \A s \in Sockets, a \in Addresses, l \in DOMAIN lm.lobbies :
            (DepositConfirmed(s, a, l) /\ reconnectRow(lm, a, l) # Null) =>
               LET old == GetRow(lm.lobbies[l].players, reconnectRow(lm, a, l))
                   players == lm'.lobbies[l].players
               IN /\ HasRow(players, s)
                  /\ GetRow(players, s).balance = old.balance
                  /\ GetRow(players, s).status = "active"
                  /\ Cardinality(RowsOfAccount(players, a))
                        <= Cardinality(RowsOfAccount(lm.lobbies[l].players, a))
       /\ \A t \in timers :
            (/\ GraceTimerFires(t)
             /\ t.sid \in hist.reconnected
             /\ \A u \in timers :
                   (u.sid # t.sid /\ toLowerCase(u.address) = toLowerCase(t.address))
                       => now < u.due)
            => lm' = lm]_vars

\* C10: Grace expiry forfeits.  When the grace timer of a network disconnect
\* fires and the row was not reconnected (it is still temporarily
\* disconnected and the only row of its account in that lobby), the ledger
\* entry of the address in the lobby of the disconnect has amount 0 and
\* status dead afterwards.
C10_GraceExpiryForfeits ==
    [][\A t \in timers :
          (/\ GraceTimerFires(t)
           /\ t.sid \notin hist.reconnected
           /\ t.lobbyId \in DOMAIN lm.lobbies
           /\ HasRow(lm.lobbies[t.lobbyId].players, t.sid)
           /\ GetRow(lm.lobbies[t.lobbyId].players, t.sid).status
                = "temporarily_disconnected"
           /\ Cardinality(RowsOfAccount(lm.lobbies[t.lobbyId].players,
                                        t.address)) = 1)
          => LET e == GetBal(lm'.lobbies[t.lobbyId].balances, t.address)
             IN e.amount = 0 /\ e.status = "dead"]_vars

\* C11: A frozen balance is immutable.  In every step, a ledger entry whose
\* status is frozen before the step, and whose account has one participant
\* row in the lobby, itself frozen, is still in the lobby's ledger after the
\* step with the same amount (whatever the event: a kill with the frozen
\* participant as victim or as killer, a disconnect, a removal, the lobby's
\* end).
C11_FrozenImmutable ==
    [][\A l \in DOMAIN lm.lobbies :
          \A i \in DOMAIN lm.lobbies[l].balances :
              LET e == lm.lobbies[l].balances[i]
                  rows == RowsOfAccount(lm.lobbies[l].players, e.address)
              IN (/\ e.status = "frozen"
                  /\ Cardinality(rows) = 1
                  /\ \A r \in rows : lm.lobbies[l].players[r].status = "frozen")
                 => /\ l \in DOMAIN lm'.lobbies
                    /\ i \in DOMAIN lm'.lobbies[l].balances
                    /\ lm'.lobbies[l].balances[i].amount = e.amount]_vars

\* the sum of the ledger amounts of the entries that are active or frozen
RECURSIVE SumSurvivors(_)
SumSurvivors(balances) ==
    IF balances = <<>> THEN 0
    ELSE (IF Head(balances).status \in {"active", "frozen"}
          THEN Head(balances).amount ELSE 0) + SumSurvivors(Tail(balances))

\* C12: Payout of survivors.  In every step that starts the settlement of a
\* lobby, every ledger entry of the lobby that is active or frozen before the
\* step (at lobby end) with a positive amount is paid, in the settlement,
\* floor(amount * totalPayout / activeTotalBalance), activeTotalBalance being
\* the sum of the amounts of those entries and totalPayout
\* floor(activeTotalBalance * 10000 / (10000 + feeBps)).
C12_SurvivorsPaid ==
    [][\A l \in DOMAIN lm.lobbies :
          hist'.submitCalls[l] > hist.submitCalls[l] =>
             LET ledger == lm.lobbies[l].balances
                 activeTotalBalance == SumSurvivors(ledger)
                 totalPayout == MulDivFloor(activeTotalBalance, 10000,
                                            10000 + feeBps)
                 paid == runs'[Len(runs')].settle.balancesWithFee
             IN \A i \in DOMAIN ledger :
                   (ledger[i].status \in {"active", "frozen"}
                      /\ ledger[i].amount > 0)
                   => \E j \in DOMAIN paid :
                         /\ paid[j].address = toLowerCase(ledger[i].address)
                         /\ paid[j].amount
                              = MulDivFloor(ledger[i].amount, totalPayout,
                                            activeTotalBalance)]_vars

\* the indexes of the ledger entries of an account (address up to letter case)
EntriesOfAccount(balances, a) ==
    {i \in DOMAIN balances : toLowerCase(balances[i].address) = toLowerCase(a)}

\* the rows of an account that are not dead
LiveRowsOfAccount(players, a) ==
    {i \in RowsOfAccount(players, a) : players[i].status # "dead"}

\* C13: One participant per address per lobby.  In every reachable state
\* every lobby holds, for every address (addresses that differ only in letter
\* case being the same address), at most one ledger entry and at most one
\* participant row that is not dead.
C13_OnePerAddress ==
    \A l \in DOMAIN lm.lobbies : \A a \in LowerAddresses :
        /\ Cardinality(EntriesOfAccount(lm.lobbies[l].balances, a)) <= 1
        /\ Cardinality(LiveRowsOfAccount(lm.lobbies[l].players, a)) <= 1

\* C14: "Already finalized" is success.  When a distributeRewards call for a
\* lobby has ended with the contract holding the lobby as Finalized (the
\* attempts after a mined one are answered with a revert), and no other call
\* for the lobby is in progress, the lobby is marked finalized.
C14_AlreadyFinalizedIsSuccess ==
    \A l \in hist.exhausted :
        (/\ chain.state[l] = "Finalized"
         /\ ~InFlight(l)
         /\ l \in DOMAIN lm.lobbies)
        => lm.lobbies[l].state = "finalized"

\* C15: Bounded retry.  For every distributeRewards call in progress and
\* every behaviour of the network over its attempts: the call makes between 1
\* and maxRetries attempts; if some attempt succeeds (the contract accepts the
\* submission, the attempt is mined and its receipt arrives, every earlier
\* attempt having failed unmined) the call returns success at that attempt
\* and makes no further one; otherwise it makes maxRetries attempts and ends
\* by throwing; and the waits it takes are 2^attempt seconds after each
\* failed attempt but the last one of the call, none after its last attempt.
C15_BoundedRetry ==
    \A i \in DOMAIN runs :
        \A accepted \in {contractAccepts(chain, runs[i].lobbyId, runs[i].settle)} :
            \A o \in AllOutcomes :
                \A D \in {distributeRewards(chain, runs[i].lobbyId,
                                            runs[i].settle, o, 0)} :
                    LET succeeding ==
                            {n \in 1..maxRetries :
                                /\ accepted
                                /\ o[n] = "ok"
                                /\ \A m \in 1..(n - 1) : o[m] = "fail"}
                    IN /\ D.attempts \in 1..maxRetries
                       /\ D.success <=> succeeding # {}
                       /\ D.success => D.attempts \in succeeding
                       /\ ~D.success => D.attempts = maxRetries
                       /\ D.waits = [k \in 1..(D.attempts - 1) |->
                                        (2 ^ (k - 1)) * 1000]

\* a call in progress that, with the first attempt failing and the second
\* succeeding, returns after two attempts and one wait of one second
C15_Witness ==
    \E i \in DOMAIN runs : \E o \in AllOutcomes :
        \E D \in {distributeRewards(chain, runs[i].lobbyId, runs[i].settle, o, 0)} :
            /\ o[1] = "fail" /\ o[2] = "ok"
            /\ D.success /\ D.attempts = 2 /\ D.waits = <<1000>>

\* C16: Deterministic snapshot.  For every lobby, a second getFinalBalances
\* call right after a first returns the same list; the list is in ascending
\* order of address; and for every address (lower-cased) the list holds
\* exactly one entry if the address has deposited in the lobby (it has a
\* ledger entry, dead ones included) and none otherwise.
C16_DeterministicSnapshot ==
    \A l \in DOMAIN lm.lobbies :
        LET list == getFinalBalances(lm, l)
        IN /\ getFinalBalances(getLobby(lm, l), l) = list
           /\ \A i \in DOMAIN list : \A j \in DOMAIN list :
                 i < j => AddrRank(list[i].address) <= AddrRank(list[j].address)
           /\ \A a \in LowerAddresses :
                 Cardinality({i \in DOMAIN list : list[i].address = a})
                   = IF EntriesOfAccount(lm.lobbies[l].balances, a) # {}
                     THEN 1 ELSE 0

\* the participant rows and the ledger of a lobby id (none if it has no lobby)
RowsOf(M, l) == IF l \in DOMAIN M.lobbies THEN M.lobbies[l].players ELSE <<>>

LedgerOf(M, l) == IF l \in DOMAIN M.lobbies THEN M.lobbies[l].balances ELSE <<>>

\* the killer and the victim are not in the same lobby, one of the sockets is
\* in no lobby or has no row, or the victim's row is not active
InvalidKill(k, v) ==
    LET kl == lm.playerLobbies[k]
        vl == lm.playerLobbies[v]
    IN \/ kl = Null
       \/ vl = Null
       \/ kl # vl
       \/ ~HasRow(RowsOf(lm, kl), k)
       \/ ~HasRow(RowsOf(lm, vl), v)
       \/ GetRow(RowsOf(lm, vl), v).status
            \in {"frozen", "temporarily_disconnected", "dead"}

\* C17: An elimination is a no-op on invalid input.  A handleKill whose
\* killer and victim are not in the same lobby, one of whose sockets is
\* unknown, or whose victim is frozen, temporarily disconnected or dead,
\* leaves the participant rows (balances and statuses) and the ledger of every
\* lobby as they were.
C17_KillNoOp ==
    [][\A k \in Sockets, v \in Sockets :
          (Kill(k, v) /\ InvalidKill(k, v)) =>
             \A l \in LobbyIds :
                 /\ RowsOf(lm', l) = RowsOf(lm, l)
                 /\ LedgerOf(lm', l) = LedgerOf(lm, l)]_vars

\* a connected killer with an active row and a connected victim of the same
\* lobby whose row is frozen and holds a positive balance; handleKill on them
\* changes nothing
C17_Witness ==
    \E k \in Sockets, v \in Sockets :
        /\ k # v /\ conn[k] = "open" /\ conn[v] = "open"
        /\ lm.playerLobbies[k] # Null
        /\ lm.playerLobbies[k] = lm.playerLobbies[v]
        /\ HasRow(RowsOf(lm, lm.playerLobbies[k]), k)
        /\ HasRow(RowsOf(lm, lm.playerLobbies[v]), v)
        /\ GetRow(RowsOf(lm, lm.playerLobbies[k]), k).status = "active"
        /\ GetRow(RowsOf(lm, lm.playerLobbies[v]), v).status = "frozen"
        /\ GetRow(RowsOf(lm, lm.playerLobbies[v]), v).balance > 0
        /\ handleKill(lm, k, v) = lm

\* the lobby of the socket is active, the socket's row is active and the
\* lobby's cash-out grace period has passed
LegalCashOut(s) ==
    LET l == lm.playerLobbies[s]
    IN /\ l # Null
       /\ l \in DOMAIN lm.lobbies
       /\ lm.lobbies[l].state = "active"
       /\ HasRow(lm.lobbies[l].players, s)
       /\ GetRow(lm.lobbies[l].players, s).status = "active"
       /\ now >= lm.lobbies[l].startTime + cashOutGraceSeconds * 1000

\* the amounts of a ledger, in its order
Amounts(balances) == [i \in DOMAIN balances |-> balances[i].amount]

\* C18: Cash-out is guarded.  handleCashOut returns true exactly when the
\* lobby is active, the participant's row is active and now is at least
\* startTime + cashOutGraceSeconds; it then sets the row to frozen, changing
\* no other row, no row balance and no ledger amount; in every other case it
\* changes no row and no ledger entry of any lobby.
C18_CashOutGuarded ==
    [][\A s \in Sockets :
          CashOut(s) =>
             /\ cashOutOk(lm, s, now) <=> LegalCashOut(s)
             /\ LegalCashOut(s) =>
                  LET l == lm.playerLobbies[s]
                      row == GetRow(lm.lobbies[l].players, s)
                  IN /\ RowsOf(lm', l)
                          = SetRow(lm.lobbies[l].players,
                                   [row EXCEPT !.status = "frozen"])
                     /\ Amounts(LedgerOf(lm', l)) = Amounts(LedgerOf(lm, l))
                     /\ \A l2 \in LobbyIds \ {l} :
                           /\ RowsOf(lm', l2) = RowsOf(lm, l2)
                           /\ LedgerOf(lm', l2) = LedgerOf(lm, l2)
             /\ ~LegalCashOut(s) =>
                  \A l \in LobbyIds :
                      /\ RowsOf(lm', l) = RowsOf(lm, l)
                      /\ LedgerOf(lm', l) = LedgerOf(lm, l)]_vars

\* a participant frozen by a cash-out, still connected, whose further
\* cash-out intent is refused without a change
C18_Witness ==
    \E s \in Sockets :
        /\ conn[s] = "open"
        /\ lm.playerLobbies[s] # Null
        /\ HasRow(RowsOf(lm, lm.playerLobbies[s]), s)
        /\ GetRow(RowsOf(lm, lm.playerLobbies[s]), s).status = "frozen"
        /\ ~cashOutOk(lm, s, now)
        /\ handleCashOut(lm, s, now) = lm

\* C19: Claim lookup.  For every lobby id and every address, getClaimData
\* returns the amount recorded for the address when the lobby has a saved
\* record whose final snapshot holds the address, and not-found (null) when the
\* lobby has no record or the address is not in the snapshot.
C19_ClaimLookup ==
    \A l \in LobbyIds : \A a \in Addresses :
        LET inRecord ==
                IF l \in DOMAIN store
                THEN {i \in DOMAIN store[l].finalBalances :
                         store[l].finalBalances[i].address = toLowerCase(a)}
                ELSE {}
            claim == getClaimData(store, l, a)
        IN IF inRecord # {}
           THEN /\ claim.kind = "claim"
                /\ \E i \in inRecord :
                      claim.amount = store[l].finalBalances[i].amount
           ELSE claim.kind = "null"

\* the recipients of a settlement whose snapshot balance is positive
PositiveRecipients(S) ==
    {j \in DOMAIN S.finalBalances : S.finalBalances[j].amount > 0}

\* every amount of the settlement is the floor of the recipient's share, 0
\* for a recipient without balance
ExactFloors(S) ==
    \A j \in DOMAIN S.finalBalances :
        /\ S.balancesWithFee[j].address = S.finalBalances[j].address
        /\ S.balancesWithFee[j].amount
             = IF j \in PositiveRecipients(S)
               THEN MulDivFloor(S.finalBalances[j].amount, S.totalPayout,
                                S.activeTotalBalance)
               ELSE 0

Shortfall(S) == S.totalPayout - SumAmounts(S.balancesWithFee)

\* C20 as stated: in every settlement each recipient's amount is exactly
\* floor(balance * totalPayout / activeTotalBalance), the sum of the amounts
\* is at most totalPayout, and the shortfall is smaller than the number of
\* recipients with a positive balance.
C20_DustBelowRecipients ==
    \A i \in DOMAIN runs :
        /\ ExactFloors(runs[i].settle)
        /\ Shortfall(runs[i].settle) >= 0
        /\ Shortfall(runs[i].settle)
             < Cardinality(PositiveRecipients(runs[i].settle))

\* C20: Rounding slack is kept as dust.  In every settlement each recipient's
\* amount is exactly floor(balance * totalPayout / activeTotalBalance) (no
\* amount is raised to absorb the slack), the sum of the amounts is at most
\* totalPayout, and the shortfall is smaller than the number of recipients
\* with a positive balance when there is one, and 0 when there is none.
C20_RoundingDust ==
    \A i \in DOMAIN runs :
        /\ ExactFloors(runs[i].settle)
        /\ Shortfall(runs[i].settle) >= 0
        /\ IF PositiveRecipients(runs[i].settle) = {}
           THEN Shortfall(runs[i].settle) = 0
           ELSE Shortfall(runs[i].settle)
                  < Cardinality(PositiveRecipients(runs[i].settle))

\* a settlement with two recipients of different addresses with a positive
\* balance, whose amounts add up to less than totalPayout
C20_Witness ==
    \E i \in DOMAIN runs :
        /\ Cardinality({runs[i].settle.finalBalances[j].address :
                           j \in PositiveRecipients(runs[i].settle)}) >= 2
        /\ Shortfall(runs[i].settle) > 0

\* C21: getFinalBalances reports amount 0 for every participant whose row is
\* temporarily disconnected at the time of the call (the row being the only
\* row of its account in the lobby): every entry of the list for that address
\* has amount 0.
C21_DisconnectedReportedZero ==
    \A l \in DOMAIN lm.lobbies :
        \A r \in DOMAIN lm.lobbies[l].players :
            LET row == lm.lobbies[l].players[r]
                list == getFinalBalances(lm, l)
            IN (/\ row.status = "temporarily_disconnected"
                /\ Cardinality(RowsOfAccount(lm.lobbies[l].players,
                                             row.address)) = 1)
               => \A i \in DOMAIN list :
                     list[i].address = toLowerCase(row.address)
                        => list[i].amount = 0

\* C22: Permanent removal.  When a disconnect handler calls removePlayer for
\* the socket's row (every disconnect but the network disconnect of an active
\* row): if the row is active, temporarily disconnected or frozen, and is the
\* only row of its account in the lobby, the ledger entry of its address has
\* amount 0 and status dead afterwards; if the row is dead, the lobby's ledger
\* is unchanged.
C22_PermanentRemoval ==
    [][\A s \in Sockets, r \in Reasons :
          LET l == lm.playerLobbies[s]
          IN (/\ Disconnect(s, r)
              /\ l # Null
              /\ HasRow(RowsOf(lm, l), s)
              /\ ~(GetRow(RowsOf(lm, l), s).status = "active"
                     /\ r \in NetworkReasons))
             => LET row == GetRow(RowsOf(lm, l), s)
                IN IF row.status = "dead"
                   THEN LedgerOf(lm', l) = LedgerOf(lm, l)
                   ELSE Cardinality(RowsOfAccount(RowsOf(lm, l), row.address)) = 1
                        => /\ GetBal(LedgerOf(lm', l), row.address).amount = 0
                           /\ GetBal(LedgerOf(lm', l), row.address).status
                                = "dead"]_vars

\* the state of a lobby id ("none" if the manager holds no lobby for it)
StateOf(M, l) == IF l \in DOMAIN M.lobbies THEN M.lobbies[l].state ELSE "none"

\* C23: Activation happens once.  A step that makes the lobby of an id active
\* is the first activation of that id (no settlement of the id has been
\* started before) and sets startTime to the time of the call and endTime to
\* startTime + lobbyDuration; and a step that finds a lobby active,
\* finalizable or finalized and leaves it in the manager leaves its startTime
\* and endTime unchanged and does not make it waiting.
C23_ActivationOnce ==
    [][\A l \in LobbyIds :
          /\ (StateOf(lm', l) = "active" /\ StateOf(lm, l) # "active") =>
                /\ StateOf(lm, l) \in {"none", "waiting"}
                /\ hist.submitCalls[l] = 0
                /\ lm'.lobbies[l].startTime = now
                /\ lm'.lobbies[l].endTime = now + lobbyDuration * 1000
          /\ (StateOf(lm, l) \in {"active", "finalizable", "finalized"}
                /\ l \in DOMAIN lm'.lobbies) =>
                /\ lm'.lobbies[l].startTime = lm.lobbies[l].startTime
                /\ lm'.lobbies[l].endTime = lm.lobbies[l].endTime
                /\ StateOf(lm', l) # "waiting"]_vars

\* the elements of a sequence
Range(seq) == {seq[i] : i \in DOMAIN seq}

ValidTotals(S) ==
    /\ S.totalPayout + S.totalFee = S.totalDeposits
    /\ \A expectedFee \in {MulDivFloor(S.totalPayout, feeBps, 10000)} :
          /\ S.totalFee >= expectedFee - 1
          /\ S.totalFee <= expectedFee + 1

\* C26: Invalid settlement data is never submitted.  Every settlement for
\* which finalizeLobby has called distributeRewards has totals that pass both
\* checks (a settlement that fails one is aborted before the call).
C26_InvalidNeverSubmitted ==
    \A i \in DOMAIN runs : ValidTotals(runs[i].settle)

\* C27: Every settlement submitted by finalizeLobby (for a ledger with one
\* entry per address) passes the contract's amount check: the sum of the
\* positive entries of its amounts equals its totalPayout.
C27_AmountsAddUp ==
    \A i \in DOMAIN runs :
        LET S == runs[i].settle
        IN Cardinality({S.finalBalances[j].address : j \in DOMAIN S.finalBalances})
              = Len(S.finalBalances)
           => SumPositive(S.balancesWithFee) = S.totalPayout

\* C28: The totalDeposits of a settlement equals the lobby's total confirmed
\* deposits, the contract's totalDeposits for the lobby (depositAmount for
\* every joinLobby, a second one by the same address included), whenever
\* every address that deposited into the lobby is in the settlement's
\* snapshot, once.
C28_TotalDepositsMatchEscrow ==
    \A i \in DOMAIN runs :
        LET S == runs[i].settle
            l == runs[i].lobbyId
            snapshot == {S.finalBalances[j].address : j \in DOMAIN S.finalBalances}
        IN (/\ Cardinality(snapshot) = Len(S.finalBalances)
            /\ \A a \in LowerAddresses : <<a, l>> \in chain.joined <=> a \in snapshot)
           => S.totalDeposits = chain.joins[l] * depositAmount

\* C29: All-forfeit edge case.  Every settlement whose activeTotalBalance is
\* 0 (every ledger entry has final amount 0) has every recipient amount 0,
\* totalPayout 0 and totalFee equal to totalDeposits.
C29_AllForfeit ==
    \A i \in DOMAIN runs :
        LET S == runs[i].settle
        IN S.activeTotalBalance = 0 =>
              /\ \A j \in DOMAIN S.finalBalances : S.finalBalances[j].amount = 0
              /\ Len(S.balancesWithFee) = Len(S.finalBalances)
              /\ \A j \in DOMAIN S.balancesWithFee : S.balancesWithFee[j].amount = 0
              /\ S.totalPayout = 0
              /\ S.totalFee = S.totalDeposits

\* a settlement of a lobby with two depositors who both forfeited
C29_Witness ==
    \E i \in DOMAIN runs :
        /\ runs[i].settle.activeTotalBalance = 0
        /\ Len(runs[i].settle.balancesWithFee) = 2
        /\ runs[i].settle.totalFee = 2 * depositAmount

\* C30: Archive ordering.  With a contract client, an archive record exists
\* only for a lobby whose submission has succeeded: every lobby id with a
\* saved record has had a distributeRewards call return successfully.
C30_ArchiveAfterAck ==
    contractClient => \A l \in DOMAIN store : hist.acks[l] >= 1

GameEvent ==
    \/ \E s \in Sockets, a \in Addresses, l \in LobbyIds : DepositConfirmed(s, a, l)
    \/ \E k \in Sockets, v \in Sockets : Kill(k, v)
    \/ \E s \in Sockets : CashOut(s)
    \/ \E s \in Sockets, r \in Reasons : Disconnect(s, r)
    \/ \E t \in timers : GraceTimerFires(t)

\* C32: Late game events are ignored.  A game event that occurs while a
\* lobby's state is finalizable or finalized changes neither the ledger
\* entries nor the participant rows of that lobby.
C32_LateEventsIgnored ==
    [][GameEvent =>
          \A l \in DOMAIN lm.lobbies :
              lm.lobbies[l].state \in {"finalizable", "finalized"} =>
                 /\ RowsOf(lm', l) = RowsOf(lm, l)
                 /\ LedgerOf(lm', l) = LedgerOf(lm, l)]_vars

\* C33: A failed deposit verification is not a denial.  For a deposit that is
\* not cached, a confirmation whose verifyDeposit query raises an error is not
\* verified and leaves the deposit cache, the lobbies and the ledgers as they
\* were; the same confirmation repeated afterwards is verified afresh and
\* succeeds exactly if the chain holds the LobbyJoined event, and it then
\* leaves hasDeposited(address, lobbyId) true.
C33_FailedVerificationNotDenial ==
    \A s \in Sockets, a \in Addresses, l \in LobbyIds :
        ~hasDeposited(deposits, a, l) =>
           \A E \in {playerDepositConfirmed(lm, deposits, chain, s, a, l, now,
                                            "error")} :
           \A R \in {playerDepositConfirmed(E.lm, E.deposits, chain, s, a, l,
                                            now, "ok")} :
              /\ ~E.verified
              /\ E.deposits = deposits
              /\ E.lm = lm
              /\ R.verified <=> <<toLowerCase(a), l>> \in chain.joined
              /\ R.verified => hasDeposited(R.deposits, a, l)

\* an address has joined a lobby on chain, the cache does not hold that
\* deposit, and a socket is open to confirm it: the failed query changes
\* nothing and the repeated confirmation is verified
C33_Witness ==
    \E s \in Sockets, a \in Addresses, l \in LobbyIds :
        /\ conn[s] = "open"
        /\ <<toLowerCase(a), l>> \in chain.joined
        /\ ~hasDeposited(deposits, a, l)
        /\ ~playerDepositConfirmed(lm, deposits, chain, s, a, l, now,
                                   "error").verified
        /\ playerDepositConfirmed(lm, deposits, chain, s, a, l, now,
                                  "ok").verified

\* the rows of a lobby that are active and bound to a socket
ActiveRowsOfSocket(M, l, s) ==
    {i \in DOMAIN RowsOf(M, l) :
        RowsOf(M, l)[i].socketId = s /\ RowsOf(M, l)[i].status = "active"}

\* C34: Intentional exit forfeits at once.  When a socket disconnects with a
\* reason other than transport close, ping timeout or transport error, every
\* participant that was active on that socket has, right after the step, a
\* ledger entry with amount 0 and status dead and no row left to reconnect to,
\* and no grace timer has been started.
C34_IntentionalExitForfeits ==
    [][\A s \in Sockets, r \in Reasons \ NetworkReasons :
          Disconnect(s, r) =>
             /\ timers' = timers
             /\ \A l \in DOMAIN lm.lobbies :
                \A i \in ActiveRowsOfSocket(lm, l, s) :
                   /\ ~HasRow(RowsOf(lm', l), s)
                   /\ \A j \in EntriesOfAccount(LedgerOf(lm', l),
                                                RowsOf(lm, l)[i].address) :
                         LedgerOf(lm', l)[j].address = RowsOf(lm, l)[i].address =>
                            /\ LedgerOf(lm', l)[j].amount = 0
                            /\ LedgerOf(lm', l)[j].status = "dead"]_vars

\* C35: Participant row and ledger entry agree.  In every reachable state of
\* the game, every row of lobby.players has a ledger entry under the row's
\* address, the row's balance equals that entry's amount and the row's status
\* equals that entry's status.
C35_RowAndLedgerAgree ==
    \A l \in DOMAIN lm.lobbies :
    \A i \in DOMAIN RowsOf(lm, l) :
       \E j \in DOMAIN LedgerOf(lm, l) :
          /\ LedgerOf(lm, l)[j].address = RowsOf(lm, l)[i].address
          /\ LedgerOf(lm, l)[j].amount = RowsOf(lm, l)[i].balance
          /\ LedgerOf(lm, l)[j].status = RowsOf(lm, l)[i].status

\* C36: No overlapping settlement of one lobby.  In every reachable state no
\* two finalizeLobby executions that await their distributeRewards call are
\* for the same lobby.
C36_NoOverlappingSettlement ==
    \A i \in DOMAIN runs : \A j \in DOMAIN runs :
        i # j => runs[i].lobbyId # runs[j].lobbyId

\* C37: Settlement totals are within range.  For every lobby that the
\* finalization job finds ready (active and past its end), the settlement
\* that finalizeLobby computes from the ledger has
\* 0 <= totalPayout <= totalDeposits and totalFee >= 0.
C37_TotalsWithinRange ==
    \A l \in Range(getLobbiesReadyForFinalization(lm, now)) :
    \A S \in {finalizeSync(lm, store, l).settle} :
        /\ 0 <= S.totalPayout
        /\ S.totalPayout <= S.totalDeposits
        /\ S.totalFee >= 0

\* C38: Removal by address is scoped to the given lobby.  When a grace timer
\* fires and calls removePlayerPermanently(address, lobbyId), the rows and the
\* ledger entries of every other lobby are left as they were.
C38_RemovalScopedToLobby ==
    [][\A t \in timers :
          GraceTimerFires(t) =>
             \A l \in DOMAIN lm.lobbies \ {t.lobbyId} :
                /\ RowsOf(lm', l) = RowsOf(lm, l)
                /\ LedgerOf(lm', l) = LedgerOf(lm, l)]_vars

\* C39: The deposit cache keeps every observed deposit.  Within the first hour
\* (before cleanup can purge any record), for every LobbyJoined notification
\* observed for an address and a lobby, hasDeposited(address, lobby) is true,
\* whatever has been observed later for the same address in other lobbies.
C39_CacheKeepsEveryDeposit ==
    now < StartClock + OneHourMs =>
       \A a \in Addresses, l \in LobbyIds :
           <<toLowerCase(a), l>> \in chain.joined => hasDeposited(deposits, a, l)

\* C40: Grace timers of earlier disconnects do no harm.  When the timer of a
\* disconnect that was followed by a reconnection fires while the same address
\* is temporarily disconnected again in the same lobby and the grace period of
\* that later disconnect has not run out, the rows and the ledger of the lobby
\* are left as they were (so that a reconnection within the later grace period
\* finds the balance).
C40_EarlierTimersHarmless ==
    [][\A t \in timers, u \in timers :
          (/\ GraceTimerFires(t)
           /\ t.sid \in hist.reconnected
           /\ u.sid # t.sid
           /\ u.lobbyId = t.lobbyId
           /\ toLowerCase(u.address) = toLowerCase(t.address)
           /\ now < u.due
           /\ HasRow(RowsOf(lm, u.lobbyId), u.sid)
           /\ GetRow(RowsOf(lm, u.lobbyId), u.sid).status
                 = "temporarily_disconnected")
          => /\ RowsOf(lm', u.lobbyId) = RowsOf(lm, u.lobbyId)
             /\ LedgerOf(lm', u.lobbyId) = LedgerOf(lm, u.lobbyId)]_vars
====
